---- MODULE Spec2Model ----
(***************************************************************************)
(* Mountain Warehouse PLP monitor (monitor.py).                            *)
(*                                                                         *)
(* A run is one process: it loads alert_state.json, visits every           *)
(* configured URL in turn, compares the sub-category count to              *)
(* MIN_SUBCATEGORIES, sends at most one SMS, saves the state and exits.    *)
(* Successive runs (started by an external scheduler, never overlapping)   *)
(* share only the state file.                                              *)
(*                                                                         *)
(* Python str values are modelled as sequences of chunks.  A chunk is      *)
(* either one separator character (":", "/", " ", "\n") or a run of        *)
(* characters holding no separator, so str.split works on chunks exactly   *)
(* as it works on characters.                                              *)
(***************************************************************************)
EXTENDS Integers, Sequences, FiniteSets, TLC

\* ------------------------------------------------------------ bounds
\* The first NumTargets entries of URLS_TO_MONITOR are monitored.
NumTargets == 2
\* Number of runs the scheduler starts.
MaxRuns == 3

\* ------------------------------------------------------------ Python values
\* Python's None; no text is this chunk sequence.
None == <<"<None>">>

\* Truth value of a str-or-None or of a list: None, "" and [] are false.
Truthy(v) == v # None /\ v # <<>>

\* str(n) of an int.
str(n) == <<ToString(n)>>

Whitespace == {" ", "\n"}

\* s.split(sep) for a one-character separator.
RECURSIVE split(_, _)
split(s, sep) ==
    IF \A i \in 1..Len(s) : s[i] # sep
    THEN <<s>>
    ELSE LET i == CHOOSE k \in 1..Len(s) :
                    s[k] = sep /\ \A j \in 1..(k - 1) : s[j] # sep
         IN  <<SubSeq(s, 1, i - 1)>> \o split(SubSeq(s, i + 1, Len(s)), sep)

\* s.split() : the whitespace-separated words of s, none of them empty.
RECURSIVE split_ws(_)
split_ws(s) ==
    IF s = <<>> THEN <<>>
    ELSE IF Head(s) \in Whitespace THEN split_ws(Tail(s))
    ELSE LET stops == {k \in 1..Len(s) : s[k] \in Whitespace}
             n == IF stops = {} THEN Len(s) + 1
                  ELSE CHOOSE k \in stops : \A j \in stops : k <= j
         IN  <<SubSeq(s, 1, n - 1)>> \o split_ws(SubSeq(s, n, Len(s)))

\* sep.join(parts)
RECURSIVE join(_, _)
join(sep, parts) ==
    IF parts = <<>> THEN <<>>
    ELSE IF Len(parts) = 1 THEN parts[1]
    ELSE parts[1] \o sep \o join(sep, Tail(parts))

\* d.get(k, default) of a dict.
dict_get(d, k, default) == IF k \in DOMAIN d THEN d[k] ELSE default

\* Variant: the assignment leaves the dict with the one key.
dict_set_alone(d, k, v) == [x \in {k} |-> v]

\* d[k] = v of a dict.
dict_set(d, k, v) == [x \in (DOMAIN d) \cup {k} |-> IF x = k THEN v ELSE d[x]]
EmptyDict == [x \in {} |-> None]

\* ------------------------------------------------------------ configuration
Url(segment) ==
    <<"https", ":", "/", "/", "www.mountainwarehouse.com", "/", "eu", "/", segment, "/">>

URLS_TO_MONITOR ==
    << Url("mens"), Url("womens"), Url("kids"), Url("footwear"), Url("equipment"),
       Url("by-activity"), Url("camping"), Url("ski"), Url("clearance") >>

MIN_SUBCATEGORIES == 8

Targets == SubSeq(URLS_TO_MONITOR, 1, NumTargets)

\* url.split('/')[-2]
page_name(url) == LET parts == split(url, "/") IN parts[Len(parts) - 1]

\* The four Twilio settings, read from the environment when the process starts.
Credentials == {"TWILIO_ACCOUNT_SID", "TWILIO_AUTH_TOKEN", "TWILIO_PHONE_FROM", "TWILIO_PHONE_TO"}

Configured == [k \in Credentials |-> <<k>>]

\* Environments a run is started in: everything set, one name unset (os.getenv
\* gives None), one name set to the empty string.
Environments ==
    { Configured,
      [Configured EXCEPT !["TWILIO_AUTH_TOKEN"] = None],
      [Configured EXCEPT !["TWILIO_PHONE_TO"] = <<>>] }

VARIABLES
    env,            \* TWILIO_* module globals of the running process
    disk,           \* alert_state.json: [exists, text]
    clock,          \* wall clock: the tick of the run in progress
    runs,           \* runs started so far
    pc,             \* position of the process in main()
    alert_state,    \* main's alert_state dict
    issues_found,   \* main's issues_found list
    recoveries,     \* main's recoveries list
    idx,            \* position of the for loop in the target list
    count,          \* main's count, from the last count_subcategories call
    error,          \* main's error, from the last count_subcategories call
    browser,        \* "none", "open" or "closed"
    send_calls,     \* calls of send_twilio_alert in this run
    requests,       \* client.messages.create calls of this run, as [body, from_, to]
    sms_result,     \* what send_twilio_alert returned: "none", "True" or "False"
    logged,         \* recovery lines printed by this run
    exit_status,    \* the process's exit status once pc is "done" or "crashed"
    \* What the run has done so far (history, no code reads it):
    trace,          \* per target handled: [url, outcome, event], in order
    reads,          \* load_alert_state calls
    writes,         \* save_alert_state calls
    acquired,       \* browser sessions opened
    released,       \* browser sessions closed
    \* What the completed runs have done (history, no code reads it):
    breached,       \* URLs for which a completed run observed a count below the minimum
    last_event,     \* per URL: "breach", "recovery", or "none" before the first event
    outage_runs     \* completed runs in a row, up to the latest, whose every fetch failed

\* History of the run in progress / of the completed runs.
run_history == <<trace, reads, writes, acquired, released>>
past_runs == <<breached, last_event, outage_runs>>

vars == <<env, disk, clock, runs, pc, alert_state, issues_found, recoveries, idx,
          count, error, browser, send_calls, requests, sms_result, logged, exit_status,
          trace, reads, writes, acquired, released, breached, last_event, outage_runs>>

\* ------------------------------------------------------------ state file
\* Counts a page can show: none, and the two values the threshold separates.
Counts == {0, MIN_SUBCATEGORIES - 1, MIN_SUBCATEGORIES}

\* datetime.now().isoformat()
isoformat(t) == <<"t" \o ToString(t)>>

\* Variant: the flag is written as Python spells it, not as JSON does.
json_dump_python_bool(state) ==
    { [key |-> k,
       value |-> [alerted   |-> IF state[k].alerted THEN "True" ELSE "False",
                  timestamp |-> state[k].timestamp,
                  count     |-> ToString(state[k].count)]] : k \in DOMAIN state }

\* json.dump of the dict: one member per key, bools and ints as JSON literals.
json_dump(state) ==
    { [key |-> k,
       value |-> [alerted   |-> IF state[k].alerted THEN "true" ELSE "false",
                  timestamp |-> state[k].timestamp,
                  count     |-> ToString(state[k].count)]] : k \in DOMAIN state }

\* The int a JSON number literal stands for.
parse_int(literal) == CHOOSE n \in 0..99 : ToString(n) = literal

\* json.load of the file's text.
json_load(text) ==
    [k \in {m.key : m \in text} |->
        LET m == CHOOSE x \in text : x.key = k
        IN  [alerted   |-> m.value.alerted = "true",
             timestamp |-> m.value.timestamp,
             count     |-> parse_int(m.value.count)]]

load_alert_state == IF disk.exists THEN json_load(disk.text) ELSE EmptyDict

\* Variant: the store is written only if the alert did not fail.
save_if_delivered(state) ==
    IF sms_result = "False" THEN disk ELSE [exists |-> TRUE, text |-> json_dump(state)]

save_alert_state(state) == [exists |-> TRUE, text |-> json_dump(state)]

\* ------------------------------------------------------------ fetch
TimeoutMessages == { <<"Timeout", " ", "60000ms", " ", "exceeded.">> }
ErrorMessages == { <<"net", ":", ":", "ERR_CONNECTION_RESET", " ", "at", " ", "page">> }

\* The (count, error) tuples count_subcategories can return for a URL.
count_subcategories(url) ==
    { <<c, None>> : c \in Counts }
    \cup { <<0, <<"Timeout", " ", "loading", " ", "page", ":", " ">> \o e>> : e \in TimeoutMessages }
    \cup { <<0, <<"Error", ":", " ">> \o e>> : e \in ErrorMessages }

\* ------------------------------------------------------------ evaluation
\* Variant: the error of the tuple is not looked at.
has_error_ignored(e) == FALSE

\* "if error:" on the tuple count_subcategories returned
has_error(e) == Truthy(e)

\* Variant: the comparison is not strict.
below_or_at_threshold(c) == c <= MIN_SUBCATEGORIES

\* "if count < MIN_SUBCATEGORIES:"
below_threshold(c) == c < MIN_SUBCATEGORIES

\* Variant: the flag of the record is never found set.
never_alerted(state, url) == FALSE

\* Variant: any record of the URL counts as an alert, whatever its flag.
alerted_if_recorded(state, url) == url \in DOMAIN state

\* alert_state.get(url, {}).get('alerted', False)
already_alerted(state, url) ==
    LET rec == dict_get(state, url, EmptyDict)
    IN  IF "alerted" \in DOMAIN rec THEN rec.alerted ELSE FALSE

error_issue(name, e) == name \o <<":", " ">> \o e

\* Variant: the issue reports the minimum where the count belongs.
breach_issue_without_count(name, c) ==
    name \o <<":", " ">> \o str(MIN_SUBCATEGORIES)
         \o <<" ", "subcategories", " ", "(minimum", ":", " ">>
         \o str(MIN_SUBCATEGORIES) \o <<")">>

breach_issue(name, c) ==
    name \o <<":", " ">> \o str(c) \o <<" ", "subcategories", " ", "(minimum", ":", " ">>
         \o str(MIN_SUBCATEGORIES) \o <<")">>

recovery_line(name, c) ==
    name \o <<":", " ", "Recovered", " ", "to", " ">> \o str(c) \o <<" ", "subcategories">>

\* Variant: the breach is recorded without setting the flag.
breach_record_unflagged(c, now) ==
    [alerted |-> FALSE, timestamp |-> isoformat(now), count |-> c]

breach_record(c, now) == [alerted |-> TRUE, timestamp |-> isoformat(now), count |-> c]

\* Variant: the recovery keeps the flag set.
recovery_record_still_alerted(c, now) ==
    [alerted |-> TRUE, timestamp |-> isoformat(now), count |-> c]

recovery_record(c, now) == [alerted |-> FALSE, timestamp |-> isoformat(now), count |-> c]

\* ------------------------------------------------------------ notification
\* Variant: the detail is not cut down to its first word.
sms_line_whole_detail(issue) ==
    split(issue, ":")[1] \o <<":">> \o split(issue, ":")[2]

\* One line of the SMS: issue.split(':')[0] + ": " + issue.split(':')[1].split()[0]
sms_line(issue) ==
    split(issue, ":")[1] \o <<":", " ">> \o split_ws(split(issue, ":")[2])[1]

sms_lines(issues) == [i \in 1..Len(issues) |-> sms_line(issues[i])]

build_message(issues) ==
    <<"MW", " ", "Alert", ":", " ">> \o str(Len(issues))
        \o <<" ", "page(s)", " ", "<">> \o str(MIN_SUBCATEGORIES) \o <<" ", "cats", "\n">>
        \o join(<<"\n">>, sms_lines(issues))

\* Variant: only the account SID and the auth token are looked at.
account_configured(e) ==
    Truthy(e["TWILIO_ACCOUNT_SID"]) /\ Truthy(e["TWILIO_AUTH_TOKEN"])

\* all([TWILIO_ACCOUNT_SID, TWILIO_AUTH_TOKEN, TWILIO_PHONE_FROM, TWILIO_PHONE_TO])
credentials_configured(e) == \A k \in Credentials : Truthy(e[k])

\* Variant: only a breach issue is worth a message, a failed fetch is not.
notify_on_breach_only(issues) ==
    \E k \in 1..Len(issues) : issues[k][6] = "subcategories"

\* Variant: the send is not guarded.
notify_always(issues) == TRUE

\* Variant: a recovery triggers the send as an issue does.
notify_on_recovery_too(issues) == Truthy(issues) \/ Truthy(recoveries)

\* "if issues_found:" guarding the send
should_notify(issues) == Truthy(issues)

\* Variant: the status reports an undelivered alert, not an issue.
exit_code_of_delivery(issues) == IF Truthy(issues) /\ sms_result # "True" THEN 1 ELSE 0

\* sys.exit(1) if issues_found, else main returns and the process exits 0.
exit_code(issues) == IF Truthy(issues) THEN 1 ELSE 0

\* ------------------------------------------------------------ the run
\* Variant: a failed fetch ends the loop.
after_break(i) == Len(Targets) + 1

\* "continue" after a failed fetch: the for loop goes on with the next URL.
after_continue(i) == i + 1

\* Variant: leaving the with block leaves the browser as it is.
left_as_is(b) == b

\* The end of "with sync_playwright() as p:", on every way out of the block:
\* Playwright is stopped, which ends a browser still open.
release_on_exit(b) == IF b = "open" THEN "closed" ELSE b

\* One entry of the run's trace: what was observed for the URL ("ok", "below"
\* the minimum, or "failed") and what it gave rise to ("breach", "recovery", "none").
Handled(url, outcome, event) == [url |-> url, outcome |-> outcome, event |-> event]

\* The URLs the run in progress has handled with the given outcome.
UrlsWith(outcome) == {trace[i].url : i \in {k \in 1..Len(trace) : trace[k].outcome = outcome}}

\* The event the run in progress has raised for a URL.
EventOf(u) ==
    IF \E i \in 1..Len(trace) : trace[i].url = u /\ trace[i].event # "none"
    THEN (CHOOSE e \in {"breach", "recovery"} :
              \E i \in 1..Len(trace) : trace[i].url = u /\ trace[i].event = e)
    ELSE "none"

Init ==
    /\ env = Configured
    /\ disk = [exists |-> FALSE, text |-> {}]
    /\ clock = 0
    /\ runs = 0
    /\ pc = "idle"
    /\ alert_state = EmptyDict
    /\ issues_found = <<>>
    /\ recoveries = <<>>
    /\ idx = 1
    /\ count = 0
    /\ error = None
    /\ browser = "none"
    /\ send_calls = 0
    /\ requests = <<>>
    /\ sms_result = "none"
    /\ logged = <<>>
    /\ exit_status = 0
    /\ trace = <<>>
    /\ reads = 0
    /\ writes = 0
    /\ acquired = 0
    /\ released = 0
    /\ breached = {}
    /\ last_event = [u \in {Targets[i] : i \in 1..Len(Targets)} |-> "none"]
    /\ outage_runs = 0

\* The scheduler starts a process, later than the one before: the module
\* globals are read from the environment and main loads the state file.
Start ==
    /\ pc \in {"idle", "done", "crashed"}
    /\ runs < MaxRuns
    /\ runs' = runs + 1
    /\ \E e \in Environments : env' = e
    /\ alert_state' = load_alert_state
    /\ issues_found' = <<>>
    /\ recoveries' = <<>>
    /\ idx' = 1
    /\ count' = 0
    /\ error' = None
    /\ browser' = "none"
    /\ send_calls' = 0
    /\ requests' = <<>>
    /\ sms_result' = "none"
    /\ logged' = <<>>
    /\ exit_status' = 0
    /\ pc' = "launch"
    /\ clock' = clock + 1
    /\ trace' = <<>>
    /\ reads' = 1
    /\ writes' = 0
    /\ acquired' = 0
    /\ released' = 0
    /\ UNCHANGED <<disk, past_runs>>

\* sync_playwright / chromium.launch / new_context / new_page succeed.
LaunchBrowser ==
    /\ pc = "launch"
    /\ browser' = "open"
    /\ acquired' = acquired + 1
    /\ pc' = "loop"
    /\ UNCHANGED <<env, disk, clock, runs, alert_state, issues_found, recoveries, idx,
                   count, error, send_calls, requests, sms_result, logged, exit_status,
                   trace, reads, writes, released, past_runs>>

\* The browser engine cannot be started: the exception leaves main uncaught.
LaunchFails ==
    /\ pc = "launch"
    /\ pc' = "crashed"
    /\ exit_status' = 1
    /\ outage_runs' = 0
    /\ UNCHANGED <<env, disk, clock, runs, alert_state, issues_found, recoveries, idx,
                   count, error, browser, send_calls, requests, sms_result, logged,
                   run_history, breached, last_event>>

\* One iteration of the for loop.
CheckTarget ==
    /\ pc = "loop"
    /\ idx <= Len(Targets)
    /\ \E result \in count_subcategories(Targets[idx]) :
        LET url == Targets[idx]
            name == page_name(url)
            c == result[1]
            e == result[2]
            now == clock
        IN  /\ count' = c
            /\ error' = e
            /\ IF has_error(e)
               THEN /\ issues_found' = Append(issues_found, error_issue(name, e))
                    /\ idx' = after_continue(idx)
                    /\ trace' = Append(trace, Handled(url, "failed", "none"))
                    /\ UNCHANGED <<alert_state, recoveries>>
               ELSE IF below_threshold(c)
               THEN IF ~already_alerted(alert_state, url)
                    THEN /\ issues_found' = Append(issues_found, breach_issue(name, c))
                         /\ alert_state' = dict_set(alert_state, url, breach_record(c, now))
                         /\ idx' = idx + 1
                         /\ trace' = Append(trace, Handled(url, "below", "breach"))
                         /\ UNCHANGED recoveries
                    ELSE /\ idx' = idx + 1
                         /\ trace' = Append(trace, Handled(url, "below", "none"))
                         /\ UNCHANGED <<alert_state, issues_found, recoveries>>
               ELSE IF already_alerted(alert_state, url)
                    THEN /\ recoveries' = Append(recoveries, recovery_line(name, c))
                         /\ alert_state' = dict_set(alert_state, url, recovery_record(c, now))
                         /\ idx' = idx + 1
                         /\ trace' = Append(trace, Handled(url, "ok", "recovery"))
                         /\ UNCHANGED issues_found
                    ELSE /\ idx' = idx + 1
                         /\ trace' = Append(trace, Handled(url, "ok", "none"))
                         /\ UNCHANGED <<alert_state, issues_found, recoveries>>
    /\ UNCHANGED <<env, disk, clock, runs, pc, browser, send_calls, requests,
                   sms_result, logged, exit_status, reads, writes, acquired, released,
                   past_runs>>

\* The loop is exhausted: browser.close() and the with block ends.
CloseBrowser ==
    /\ pc = "loop"
    /\ idx > Len(Targets)
    /\ browser' = release_on_exit("closed")
    /\ released' = released + 1
    /\ pc' = "notify"
    /\ UNCHANGED <<env, disk, clock, runs, alert_state, issues_found, recoveries, idx,
                   count, error, send_calls, requests, sms_result, logged, exit_status,
                   trace, reads, writes, acquired, past_runs>>

\* "Send alerts if there are new issues", then the recoveries are printed.
Notify ==
    /\ pc = "notify"
    /\ IF should_notify(issues_found)
       THEN /\ send_calls' = send_calls + 1
            /\ IF ~credentials_configured(env)
               THEN /\ sms_result' = "False"
                    /\ UNCHANGED requests
               ELSE /\ requests' = Append(requests,
                            [body  |-> build_message(issues_found),
                             from_ |-> env["TWILIO_PHONE_FROM"],
                             to    |-> env["TWILIO_PHONE_TO"]])
                    /\ \E delivered \in BOOLEAN :
                           sms_result' = IF delivered THEN "True" ELSE "False"
       ELSE UNCHANGED <<send_calls, requests, sms_result>>
    /\ logged' = recoveries
    /\ pc' = "save"
    /\ UNCHANGED <<env, disk, clock, runs, alert_state, issues_found, recoveries, idx,
                   count, error, browser, exit_status, run_history, past_runs>>

\* Variant: the file is written only when the run found an issue or a recovery.
Save_when_changed ==
    /\ pc = "save"
    /\ IF Truthy(issues_found) \/ Truthy(recoveries)
       THEN disk' = save_alert_state(alert_state) /\ writes' = writes + 1
       ELSE UNCHANGED <<disk, writes>>
    /\ pc' = "exit"
    /\ UNCHANGED <<env, clock, runs, alert_state, issues_found, recoveries, idx,
                   count, error, browser, send_calls, requests, sms_result, logged,
                   exit_status, trace, reads, acquired, released, past_runs>>

\* save_alert_state(alert_state)
Save ==
    /\ pc = "save"
    /\ disk' = save_alert_state(alert_state)
    /\ writes' = writes + 1
    /\ pc' = "exit"
    /\ UNCHANGED <<env, clock, runs, alert_state, issues_found, recoveries, idx,
                   count, error, browser, send_calls, requests, sms_result, logged,
                   exit_status, trace, reads, acquired, released, past_runs>>

\* sys.exit(1) when issues were found, else main returns.
Exit ==
    /\ pc = "exit"
    /\ exit_status' = exit_code(issues_found)
    /\ pc' = "done"
    /\ breached' = breached \cup UrlsWith("below")
    /\ last_event' = [u \in DOMAIN last_event |->
                          IF EventOf(u) = "none" THEN last_event[u] ELSE EventOf(u)]
    /\ outage_runs' = IF \A i \in 1..Len(trace) : trace[i].outcome = "failed"
                      THEN outage_runs + 1 ELSE 0
    /\ UNCHANGED <<env, disk, clock, runs, alert_state, issues_found, recoveries, idx,
                   count, error, browser, send_calls, requests, sms_result, logged,
                   run_history>>

Next ==
    \/ Start
    \/ LaunchBrowser
    \/ LaunchFails
    \/ CheckTarget
    \/ CloseBrowser
    \/ Notify
    \/ Save
    \/ Exit

Spec == Init /\ [][Next]_vars

\* An exception leaves the loop body while Targets[idx] is being handled (an
\* interrupt, a failing print: count_subcategories lets no Exception out): the
\* with block is left, main is left, the process ends with a traceback.
LoopAborts ==
    /\ pc = "loop"
    /\ idx <= Len(Targets)
    /\ browser' = release_on_exit(browser)
    /\ released' = released + (IF browser' = browser THEN 0 ELSE 1)
    /\ pc' = "crashed"
    /\ exit_status' = 1
    /\ outage_runs' = 0
    /\ UNCHANGED <<env, disk, clock, runs, alert_state, issues_found, recoveries, idx,
                   count, error, send_calls, requests, sms_result, logged,
                   trace, reads, writes, acquired, breached, last_event>>

NextAbort ==
    \/ Next
    \/ LoopAborts

\* The runs of Spec, and those an exception cuts short in the loop.
SpecAbort == Init /\ [][NextAbort]_vars

\* ------------------------------------------------------------ properties
\* This step is one iteration of the for loop, on Targets[idx].
Checked == pc = "loop" /\ idx <= Len(Targets) /\ idx' = idx + 1

\* The iteration observed a count (no error) / the count it observed.
ObservedCount == error' = None

\* The record the state holds for a URL has alerted=true.
HasAlert(state, url) == url \in DOMAIN state /\ state[url].alerted

\* The URL the loop handled last.
LastUrl == Targets[idx - 1]

AfterCheck == pc = "loop" /\ idx > 1

\* C1 (de-duplication): when the store loaded for the run holds a record with
\* alerted=true for a URL and the count observed for it is below the
\* threshold, the iteration appends no issue string and the URL's record
\* (alerted, timestamp, count) stays exactly the loaded one.
C1_Deduplication ==
    [][ (Checked /\ ObservedCount /\ count' < MIN_SUBCATEGORIES
            /\ HasAlert(load_alert_state, Targets[idx]))
        => /\ issues_found' = issues_found
           /\ Targets[idx] \in DOMAIN alert_state'
           /\ alert_state'[Targets[idx]] = load_alert_state[Targets[idx]] ]_vars

\* A suppressed breach: the loaded record says 7 at an earlier tick, 0 is seen now.
C1_Witness ==
    /\ AfterCheck /\ error = None /\ count = 0
    /\ HasAlert(load_alert_state, LastUrl)
    /\ load_alert_state[LastUrl].count = 7
    /\ load_alert_state[LastUrl].timestamp # isoformat(clock)
    /\ alert_state[LastUrl] = load_alert_state[LastUrl]
    /\ issues_found = <<>>

\* C2 (recovery): when the record of a URL has alerted=true and the count
\* observed for it is at or above the threshold, the iteration appends exactly
\* one recovery string, for that URL, appends no issue string, and overwrites
\* the record with alerted=false, the observed count and the current time.
C2_Recovery ==
    [][ (Checked /\ ObservedCount /\ count' >= MIN_SUBCATEGORIES
            /\ HasAlert(alert_state, Targets[idx]))
        => /\ Len(recoveries') = Len(recoveries) + 1
           /\ SubSeq(recoveries', 1, Len(recoveries)) = recoveries
           /\ split(recoveries'[Len(recoveries')], ":")[1] = page_name(Targets[idx])
           /\ issues_found' = issues_found
           /\ alert_state'[Targets[idx]] =
                  [alerted |-> FALSE, timestamp |-> isoformat(clock'), count |-> count'] ]_vars

\* Record {alerted: true, count: 7} on disk, 8 observed: one recovery, record rewritten.
C2_Witness ==
    /\ AfterCheck /\ error = None /\ count = 8
    /\ HasAlert(load_alert_state, LastUrl)
    /\ load_alert_state[LastUrl].count = 7
    /\ Len(recoveries) = 1
    /\ alert_state[LastUrl].alerted = FALSE
    /\ alert_state[LastUrl].count = 8

\* The issue string the specification gives for a breach:
\* "<label>: <count> subcategories (minimum: <threshold>)".
BreachText(label, c, threshold) ==
    label \o <<":", " ", ToString(c), " ", "subcategories", " ", "(minimum", ":", " ",
               ToString(threshold), ")">>

\* C3 (new breach): when a URL has no prior alert (no record, or a record with
\* alerted=false) and the count observed for it is below the threshold, the
\* iteration appends exactly one issue string,
\* "<label>: <c> subcategories (minimum: <threshold>)", and writes a record
\* with alerted=true and count=c for the URL.
C3_NewBreach ==
    [][ (Checked /\ ObservedCount /\ count' < MIN_SUBCATEGORIES
            /\ ~HasAlert(alert_state, Targets[idx]))
        => /\ issues_found' =
                  Append(issues_found,
                         BreachText(page_name(Targets[idx]), count', MIN_SUBCATEGORIES))
           /\ Targets[idx] \in DOMAIN alert_state'
           /\ alert_state'[Targets[idx]].alerted = TRUE
           /\ alert_state'[Targets[idx]].count = count' ]_vars

\* No state file, mens shows 7: "mens: 7 subcategories (minimum: 8)" and a record.
C3_Witness ==
    /\ AfterCheck /\ idx = 2 /\ error = None /\ count = 7
    /\ ~disk.exists
    /\ issues_found = << <<"mens", ":", " ", "7", " ", "subcategories", " ",
                           "(minimum", ":", " ", "8", ")">> >>
    /\ alert_state[LastUrl].alerted /\ alert_state[LastUrl].count = 7

\* C4 (boundary): a count equal to the threshold never appends an issue
\* string and never leaves the URL with a record whose alerted is true,
\* whatever record the URL had.
C4_Boundary ==
    [][ (Checked /\ ObservedCount /\ count' = MIN_SUBCATEGORIES)
        => /\ issues_found' = issues_found
           /\ ~HasAlert(alert_state', Targets[idx]) ]_vars

\* The threshold itself is observed for a URL that was in alert and for one that was not.
C4_Witness ==
    /\ pc = "loop" /\ idx = 3 /\ error = None /\ count = MIN_SUBCATEGORIES
    /\ HasAlert(load_alert_state, Targets[1])
    /\ ~HasAlert(alert_state, Targets[1])
    /\ Targets[2] \notin DOMAIN alert_state
    /\ issues_found = <<>>

\* C5 (fetch error): when the observation is an error, exactly one issue
\* string, carrying the label and the error text, is appended and the store
\* is left as it was, whatever record the URL has: the count 0 that comes with
\* the error is not compared to the threshold.
C5_FetchErrorKeepsState ==
    [][ (Checked /\ ~ObservedCount)
        => /\ count' = 0
           /\ issues_found' =
                  Append(issues_found, page_name(Targets[idx]) \o <<":", " ">> \o error')
           /\ alert_state' = alert_state
           /\ recoveries' = recoveries ]_vars

\* A timeout on a URL that has no record: one issue naming it, still no record.
C5_Witness ==
    /\ AfterCheck /\ error # None /\ error[1] = "Timeout" /\ count = 0
    /\ LastUrl \notin DOMAIN alert_state
    /\ Len(issues_found) = 1
    /\ split_ws(split(issues_found[1], ":")[2])[1] = <<"Timeout">>

\* The run is past the notification step / has completed.
Notified == pc \in {"save", "exit", "done"}

Completed == pc = "done"

\* A configuration value is absent: unset, or set to the empty string.
Absent(k) == env[k] = None \/ env[k] = <<>>

\* C6 (exit code): a completed run has exit status 1 exactly when it recorded
\* at least one issue string, and 0 otherwise, whatever the send returned and
\* whether or not recoveries were found.
C6_ExitCode ==
    Completed =>
        /\ exit_status \in {0, 1}
        /\ (exit_status = 1) <=> (Len(issues_found) >= 1)

\* A run whose only issue is a fetch timeout exits 1 although the SMS went out.
C6_Witness ==
    /\ Completed /\ exit_status = 1 /\ sms_result = "True"
    /\ Len(issues_found) = 1
    /\ split_ws(split(issues_found[1], ":")[2])[1] = <<"Timeout">>

\* C7 (one SMS per run): the notifier is called at most once in a run; no
\* call is made before every target has been processed; once the run is past
\* the notification step it has been called exactly when the issue list is
\* not empty; the provider is asked for at most one message.
C7_OneSmsPerRun ==
    /\ send_calls \in {0, 1}
    /\ Len(requests) <= send_calls
    /\ (send_calls = 1) => (idx = Len(Targets) + 1 /\ Notified)
    /\ Notified => ((send_calls = 1) <=> (issues_found # <<>>))

\* Both targets raised an issue and the run made one call, with one message.
C7_Witness ==
    /\ Completed /\ Len(issues_found) = 2 /\ send_calls = 1 /\ Len(requests) = 1

\* s holds t as a contiguous part.
Contains(s, t) == \E i \in 0..(Len(s) - Len(t)) : SubSeq(s, i + 1, i + Len(t)) = t

\* C8 (recoveries are not notified): a run with recoveries and no issue calls
\* neither the notifier nor the provider and completes with status 0; no
\* message handed to the provider holds a recovery string of the run, nor the
\* word "Recovered".
C8_RecoveriesNotNotified ==
    /\ (Notified /\ recoveries # <<>> /\ issues_found = <<>>)
            => (send_calls = 0 /\ requests = <<>>)
    /\ (Completed /\ recoveries # <<>> /\ issues_found = <<>>) => exit_status = 0
    /\ \A i \in 1..Len(requests) :
            /\ ~Contains(requests[i].body, <<"Recovered">>)
            /\ \A j \in 1..Len(recoveries) : ~Contains(requests[i].body, recoveries[j])

\* A run in which both targets recovered: logged, nothing sent, status 0.
C8_Witness ==
    /\ Completed /\ Len(recoveries) = 2 /\ logged = recoveries
    /\ issues_found = <<>> /\ send_calls = 0 /\ exit_status = 0

\* C9 (notification failure is not fatal): when a configuration value is
\* absent the notifier returns False and the provider is not called; when the
\* provider call fails the notifier returns False; in neither case does the
\* run crash: it moves on to saving, and once completed the state file holds
\* the run's alert state and the exit status is the one the issue list gives.
C9_NotifyFailureNotFatal ==
    /\ (Notified /\ send_calls = 1 /\ \E k \in Credentials : Absent(k))
            => (sms_result = "False" /\ requests = <<>>)
    /\ (send_calls = 1) => (sms_result \in {"True", "False"} /\ pc # "crashed")
    /\ (Completed /\ sms_result = "False")
            => /\ disk.exists
               /\ json_load(disk.text) = alert_state
               /\ exit_status = 1

\* A new breach whose SMS the provider refused: the record is on disk, status 1.
C9_Witness ==
    /\ Completed /\ sms_result = "False" /\ Len(requests) = 1
    /\ disk.exists /\ HasAlert(json_load(disk.text), Targets[1])
    /\ exit_status = 1

\* The same with the recipient number set to the empty string: no provider call.
C9_WitnessUnconfigured ==
    /\ Completed /\ sms_result = "False" /\ requests = <<>>
    /\ env["TWILIO_PHONE_TO"] = <<>>
    /\ disk.exists /\ exit_status = 1

\* C10 (no record for a healthy target): when a URL has no prior alert (no
\* record, or a record with alerted=false) and the count observed for it is
\* at or above the threshold, the iteration appends no issue string and no
\* recovery string and leaves the store as it was: no record is created, an
\* existing one is unchanged.
C10_HealthyKeepsStore ==
    [][ (Checked /\ ObservedCount /\ count' >= MIN_SUBCATEGORIES
            /\ ~HasAlert(alert_state, Targets[idx]))
        => /\ issues_found' = issues_found
           /\ recoveries' = recoveries
           /\ alert_state' = alert_state ]_vars

\* mens recovered in an earlier run and is healthy now; womens never had a record.
C10_Witness ==
    /\ pc = "loop" /\ idx = 3 /\ error = None /\ count = 8
    /\ trace[1].outcome = "ok" /\ trace[2].outcome = "ok"
    /\ Targets[1] \in DOMAIN alert_state
    /\ Targets[1] \in DOMAIN load_alert_state
    /\ alert_state[Targets[1]] = load_alert_state[Targets[1]]
    /\ alert_state[Targets[1]].alerted = FALSE
    /\ alert_state[Targets[1]].count = 8
    /\ alert_state[Targets[1]].timestamp # isoformat(clock)
    /\ Targets[2] \notin DOMAIN alert_state
    /\ issues_found = <<>> /\ recoveries = <<>>

\* A store keeps the flag in step with the count: alerted exactly when the
\* stored count is below the minimum; its keys are monitored URLs.
Consistent(state) ==
    \A u \in DOMAIN state :
        /\ \E i \in 1..Len(Targets) : Targets[i] = u
        /\ state[u].alerted <=> (state[u].count < MIN_SUBCATEGORIES)

\* C11 (record consistency): starting from no state file, in every state every
\* run reaches, the store in memory and the store on disk hold at most one
\* record per URL, and every record has alerted=true exactly when its stored
\* count is below the threshold.
C11_RecordConsistency ==
    [](/\ Consistent(alert_state)
       /\ Consistent(load_alert_state)
       /\ \A m1, m2 \in disk.text : m1.key = m2.key => m1 = m2
       /\ Cardinality(disk.text) <= Len(Targets))

\* After three runs the file holds a breach record for one URL and a recovery
\* record for the other.
C11_Witness ==
    /\ Completed
    /\ DOMAIN load_alert_state = {Targets[1], Targets[2]}
    /\ load_alert_state[Targets[1]].alerted /\ load_alert_state[Targets[1]].count = 0
    /\ ~load_alert_state[Targets[2]].alerted /\ load_alert_state[Targets[2]].count = 8

\* C12 (persistence round trip): every store a run holds is read back from
\* its saved form as the same mapping (same URLs; same alerted flag, timestamp
\* and count per URL); once a run has saved, loading the file gives the run's
\* store; with no state file, loading gives the empty mapping.
C12_RoundTrip ==
    [](/\ json_load(save_alert_state(alert_state).text) = alert_state
       /\ save_alert_state(alert_state).exists
       /\ (pc \in {"exit", "done"}) => (load_alert_state = alert_state)
       /\ (~disk.exists) => (DOMAIN load_alert_state = {}))

\* A saved store with a flagged and an unflagged record, read back unchanged.
C12_Witness ==
    /\ Completed /\ disk.exists
    /\ DOMAIN alert_state = {Targets[1], Targets[2]}
    /\ alert_state[Targets[1]].alerted /\ ~alert_state[Targets[2]].alerted
    /\ alert_state[Targets[1]].timestamp # alert_state[Targets[2]].timestamp
    /\ load_alert_state = alert_state

\* The lines of an SMS body.
BodyLines(body) == split(body, "\n")

\* The first word an issue's detail can start with: a count, or the kind of failure.
DetailWords == {ToString(c) : c \in Counts} \cup {"Timeout", "Error"}

\* The body holds, after its first line, one line per issue, in the order of
\* the issue list, each "<label>: <first word of the detail>".
OneLinePerIssue(body, issues) ==
    LET lines == BodyLines(body)
    IN
    /\ Len(lines) = Len(issues) + 1
    /\ \A j \in 1..Len(issues) :
           /\ lines[j + 1] = <<issues[j][1], ":", " ", issues[j][4]>>
           /\ issues[j][4] \in DetailWords
           /\ \E i \in 1..Len(Targets) : <<issues[j][1]>> = page_name(Targets[i])

\* C13 as stated (message shape): the body handed to the provider is the header
\* "<N> page(s) <<minimum> cats" followed by exactly N lines, one per issue
\* in order, each "<label>: <first token of the detail>".
C13_AsStated ==
    \A i \in 1..Len(requests) :
        /\ Len(issues_found) >= 1
        /\ BodyLines(requests[i].body)[1] =
               <<ToString(Len(issues_found)), " ", "page(s)", " ", "<",
                 ToString(MIN_SUBCATEGORIES), " ", "cats">>
        /\ OneLinePerIssue(requests[i].body, issues_found)

\* C13 as amended (message shape): the body handed to the provider is the header
\* "MW Alert: <N> page(s) <<minimum> cats" followed by exactly N lines, one
\* per issue in the order the issues were recorded, each
\* "<label>: <first token of the detail>": the count of a breach, the word
\* "Timeout" or "Error" of a fetch failure.
C13_MessageShape ==
    [](\A i \in 1..Len(requests) :
        /\ Len(issues_found) >= 1
        /\ BodyLines(requests[i].body)[1] =
               <<"MW", " ", "Alert", ":", " ", ToString(Len(issues_found)), " ",
                 "page(s)", " ", "<", ToString(MIN_SUBCATEGORIES), " ", "cats">>
        /\ OneLinePerIssue(requests[i].body, issues_found))

\* A breach of mens and a failed fetch of womens, in one message.
C13_Witness ==
    /\ Len(requests) = 1
    /\ requests[1].body =
           <<"MW", " ", "Alert", ":", " ", "2", " ", "page(s)", " ", "<", "8", " ", "cats", "\n",
             "mens", ":", " ", "7", "\n", "womens", ":", " ", "Error">>

\* How far the run in progress has come: the targets handled, then the steps
\* after the loop. A run that has ended with a traceback has rank 0.
Rank ==
    CASE pc = "loop"   -> idx
      [] pc = "notify" -> Len(Targets) + 2
      [] pc = "save"   -> Len(Targets) + 3
      [] pc = "exit"   -> Len(Targets) + 4
      [] pc = "done"   -> Len(Targets) + 5
      [] OTHER         -> 0

\* The run is between the start of the loop and its exit.
Running == pc \in {"loop", "notify", "save", "exit"}

\* The message can be built from the issue: the text has a ":" and a word after it.
Summarisable(issue) ==
    /\ Len(split(issue, ":")) >= 2
    /\ Len(split_ws(split(issue, ":")[2])) >= 1

\* The step the run takes next has what it needs: the fetch of the next target
\* returns a tuple, the loop's exit closes an open browser, the message can be
\* built from every issue, and the save and the exit are possible.
CanStep ==
    CASE pc = "loop" /\ idx <= Len(Targets) -> count_subcategories(Targets[idx]) # {}
      [] pc = "loop" /\ idx > Len(Targets)  -> ENABLED CloseBrowser
      [] pc = "notify" -> \A i \in 1..Len(issues_found) : Summarisable(issues_found[i])
      [] pc = "save"   -> ENABLED Save
      [] pc = "exit"   -> ENABLED Exit
      [] OTHER         -> TRUE

\* C14 (every target processed): in a run whose browser has started, the
\* targets are handled in the order of the list, none skipped and none twice;
\* a fetch error moves the loop on to the next target; the steps after the
\* loop are reached only with every target handled; the run that has exited
\* has saved its store; and the run neither stops nor goes back on the way:
\* its next step has what it needs and every step takes it one further, so it
\* ends after Len(Targets) + 4 steps.
C14_EveryTargetProcessed ==
    /\ [](Rank > 0 =>
            /\ [i \in 1..Len(trace) |-> trace[i].url] = SubSeq(Targets, 1, Len(trace))
            /\ (pc = "loop" => Len(trace) = idx - 1 /\ idx <= Len(Targets) + 1)
            /\ (pc # "loop" => Len(trace) = Len(Targets) /\ idx = Len(Targets) + 1)
            /\ (pc = "done" => writes = 1 /\ disk = save_alert_state(alert_state)))
    /\ []CanStep
    /\ [][Running => Rank' = Rank + 1]_vars

\* The first fetch failed, the second target was still handled, and the run
\* saved and exited.
C14_Witness ==
    /\ Completed
    /\ Len(trace) = Len(Targets)
    /\ trace[1].outcome = "failed" /\ trace[2].outcome = "ok"
    /\ writes = 1

\* C15 (load/save ordering): in a run whose browser has started, the state file
\* is read once, when the run starts and before any target is handled, and the
\* run works on what it read; the file is written once, by the step that
\* follows the notification step, with every target handled and the alert
\* already attempted if there was an issue, and before the exit; no other step
\* changes the file, so it is not written between targets; and it is written
\* whether or not an issue or a recovery was found.
C15_LoadSaveOrdering ==
    /\ []((pc # "idle" => reads = 1)
          /\ (pc \in {"launch", "loop", "notify", "save"} => writes = 0)
          /\ (pc \in {"exit", "done"} => writes = 1 /\ disk = save_alert_state(alert_state)))
    /\ [][IF runs' # runs
           THEN reads' = 1 /\ trace' = <<>> /\ alert_state' = load_alert_state
           ELSE reads' = reads]_vars
    /\ [][(writes' > writes \/ disk' # disk) =>
              /\ pc = "save" /\ pc' = "exit" /\ writes' = writes + 1
              /\ Len(trace) = Len(Targets)
              /\ Notified
              /\ (Truthy(issues_found) => send_calls = 1)]_vars

\* A first run with every target healthy: nothing to report, and the file is
\* created all the same.
C15_Witness ==
    /\ Completed /\ runs = 1
    /\ issues_found = <<>> /\ recoveries = <<>> /\ send_calls = 0
    /\ reads = 1 /\ writes = 1
    /\ disk = [exists |-> TRUE, text |-> {}]

\* The URLs that have a record in the state file.
Recorded == DOMAIN load_alert_state

\* C16 (record lifecycle): starting with no state file, between runs and up to
\* the save of a run the URLs with a record in the file are exactly those for
\* which some completed run observed a count below the minimum; the save of a
\* run keeps every one of them, and adds exactly the URLs the run observed
\* below the minimum; so no run, whatever it observes (healthy count, breach,
\* recovery, fetch error), removes a record.
C16_RecordLifecycle ==
    /\ [](pc # "exit" => Recorded = breached)
    /\ [](pc = "exit" => Recorded = breached \cup UrlsWith("below"))
    /\ [][Recorded \subseteq Recorded']_vars

\* A URL that breached in the first run keeps its record through a run in
\* which it recovered and a run in which its fetch failed; the other URL,
\* never seen below the minimum, has none.
C16_Witness ==
    /\ Completed /\ runs = 3
    /\ Recorded = {Targets[1]}
    /\ ~load_alert_state[Targets[1]].alerted
    /\ load_alert_state[Targets[1]].timestamp = isoformat(2)
    /\ trace[1].outcome = "failed"
    /\ trace[2].outcome = "ok"

\* C17 (browser session scoping): a run opens at most one browser session and
\* closes none it has not opened; a target is handled only with the one
\* session open, opened before the first target; the session stays open through
\* the loop and is closed once, after the last target and before the
\* notification; and a run that an exception takes out of the loop while a
\* target is being handled has closed the session it opened.
C17_BrowserScoping ==
    [](/\ acquired <= 1 /\ released <= acquired
       /\ (browser = "open") <=> (acquired = 1 /\ released = 0)
       /\ (browser = "closed") <=> (acquired = 1 /\ released = 1)
       /\ (Len(trace) > 0 => acquired = 1)
       /\ (pc = "loop" => browser = "open")
       /\ (pc \in {"notify", "save", "exit", "done"} =>
              browser = "closed" /\ Len(trace) = Len(Targets))
       /\ (pc = "crashed" => released = acquired))

\* An exception while the second target was being handled: the run is over,
\* the session it opened is closed.
C17_Witness ==
    /\ pc = "crashed" /\ Len(trace) = 1
    /\ acquired = 1 /\ released = 1 /\ browser = "closed"
    /\ exit_status = 1

\* C18 (alert/recovery alternation): starting with no state file and with runs
\* that do not overlap, a run raises at most one event for a URL; a breach issue
\* for a URL is raised only if the last event the completed runs raised for it
\* is not a breach issue (none yet, or a recovery), and a recovery only if that
\* last event is a breach issue; a failed fetch raises no event and leaves the
\* last event as it is; every breach issue string and every recovery string
\* of a run is such an event. So per URL the events alternate, a breach
\* issue first.
C18_Alternation ==
    /\ [](pc \in {"loop", "notify", "save", "exit"} =>
            \A i \in 1..Len(trace) :
                /\ \A j \in 1..Len(trace) : trace[j].url = trace[i].url => j = i
                /\ (trace[i].event = "breach" =>
                       /\ last_event[trace[i].url] # "breach"
                       /\ trace[i].outcome = "below"
                       /\ \E k \in 1..Len(issues_found) :
                              /\ <<issues_found[k][1]>> = page_name(trace[i].url)
                              /\ issues_found[k][6] = "subcategories")
                /\ (trace[i].event = "recovery" =>
                       /\ last_event[trace[i].url] = "breach"
                       /\ trace[i].outcome = "ok"
                       /\ \E k \in 1..Len(recoveries) :
                              <<recoveries[k][1]>> = page_name(trace[i].url))
                /\ (trace[i].outcome = "failed" => trace[i].event = "none"))
    /\ [](\A k \in 1..Len(issues_found) :
            issues_found[k][6] = "subcategories" =>
                \E i \in 1..Len(trace) :
                    /\ trace[i].event = "breach"
                    /\ page_name(trace[i].url) = <<issues_found[k][1]>>)
    /\ [](\A k \in 1..Len(recoveries) :
            \E i \in 1..Len(trace) :
                /\ trace[i].event = "recovery"
                /\ page_name(trace[i].url) = <<recoveries[k][1]>>)
    /\ [][\A u \in DOMAIN last_event :
              last_event'[u] # last_event[u] =>
                  /\ pc = "exit" /\ pc' = "done"
                  /\ last_event'[u] = EventOf(u)
                  /\ EventOf(u) # "none"]_vars

\* Third run: a breach issue for a URL whose first run raised a breach issue
\* and whose second run raised the recovery.
C18_Witness ==
    /\ pc = "loop" /\ runs = 3 /\ Len(trace) = 1
    /\ trace[1].event = "breach"
    /\ last_event[trace[1].url] = "recovery"

\* The run in progress has recorded an issue for the failed fetch of the URL:
\* "<label>: Timeout loading page: ..." or "<label>: Error: ...".
HasErrorIssue(url) ==
    \E k \in 1..Len(issues_found) :
        /\ <<issues_found[k][1]>> = page_name(url)
        /\ issues_found[k][4] \in {"Timeout", "Error"}

\* C19 (fetch errors are not de-duplicated): every run in which the fetch of a
\* URL fails records an issue for it, whatever record the store holds for the
\* URL and whatever earlier runs reported, and the URL's record stays as
\* loaded; when that run completes it has called the notifier once and exits
\* with status 1. So a fetch that fails in k runs in a row gives k runs that
\* each attempt an SMS and exit with 1.
C19_ErrorsNotDeduplicated ==
    [](\A i \in 1..Len(trace) :
          trace[i].outcome = "failed" =>
              /\ HasErrorIssue(trace[i].url)
              /\ (pc \in {"loop", "notify", "save"} =>
                     dict_get(alert_state, trace[i].url, None)
                         = dict_get(load_alert_state, trace[i].url, None))
              /\ (Notified => send_calls = 1)
              /\ (Completed => exit_status = 1))

\* Third run, the second in a row in which every fetch failed, for a URL
\* that has had an alerted record since the first run: issues, an SMS attempt
\* and status 1 again.
C19_Witness ==
    /\ Completed /\ runs = 3 /\ outage_runs = 2
    /\ HasAlert(load_alert_state, Targets[1])
    /\ load_alert_state[Targets[1]].timestamp = isoformat(1)
    /\ Len(issues_found) = Len(Targets)
    /\ HasErrorIssue(Targets[1])
    /\ send_calls = 1 /\ exit_status = 1

\* The labels of the lines a message body has after its header.
LabelsIn(body) ==
    LET lines == BodyLines(body)
    IN  {<<lines[j][1]>> : j \in 2..Len(lines)}

\* C20 (the alerted flag does not depend on delivery): the record a run writes
\* for a new breach, with alerted=true, is in the file once the run has saved,
\* whatever the notifier returned: delivered, failed, or not tried for a missing
\* credential; and in every run in which a URL's count is below the minimum
\* while the last event of the completed runs for it is a breach issue (no
\* recovery since), no event is raised for the URL, no issue is recorded for it
\* and no message to the provider has a line for it.
C20_FlagIndependentOfDelivery ==
    [](\A i \in 1..Len(trace) :
          /\ (trace[i].event = "breach" /\ pc \in {"exit", "done"} =>
                 /\ sms_result \in {"True", "False"}
                 /\ HasAlert(load_alert_state, trace[i].url)
                 /\ load_alert_state[trace[i].url].timestamp = isoformat(clock))
          /\ (/\ trace[i].outcome = "below"
              /\ last_event[trace[i].url] = "breach"
              /\ pc \in {"loop", "notify", "save", "exit"}
              => /\ trace[i].event = "none"
                 /\ \A k \in 1..Len(issues_found) :
                        <<issues_found[k][1]>> # page_name(trace[i].url)
                 /\ \A k \in 1..Len(requests) :
                        page_name(trace[i].url) \notin LabelsIn(requests[k].body)))

\* One run: mens, alerted by an earlier run, is still below the minimum and
\* raises nothing; womens breaches for the first time, the alert is not sent
\* for a missing credential, and the record with alerted=true is saved.
C20_Witness ==
    /\ Completed /\ Len(trace) = Len(Targets)
    /\ trace[1].outcome = "below" /\ trace[1].event = "none"
    /\ trace[2].event = "breach"
    /\ ~credentials_configured(env)
    /\ send_calls = 1 /\ sms_result = "False" /\ requests = <<>>
    /\ HasAlert(load_alert_state, Targets[2])
    /\ Len(issues_found) = 1
====
